---- MODULE Spec2Model ----
(***************************************************************************)
(* Model of the two browser front ends of the voice agent repository:      *)
(*                                                                         *)
(*   App        src/prod/frontend/src/App.js  - the LiveKit session        *)
(*              manager (token fetch with fallback, Room connect,          *)
(*              disconnect, microphone toggle, transport events).          *)
(*   SimpleApp  src/unnamed/part_001 - the REST variant (recording,        *)
(*              upload, conversation log with the typing reveal).          *)
(*                                                                         *)
(* React state is modelled by one variable per useState cell.  An async    *)
(* handler is a small process: each `await` is a point where other         *)
(* callbacks may run, and the values a handler closed over at the render   *)
(* it was started from are kept in the process record.  Every callback     *)
(* (click, promise continuation, timer, event listener) is one atomic      *)
(* step, as on the browser's single thread.                                *)
(*                                                                         *)
(* Specifications:                                                         *)
(*   Spec        App driven through its rendered controls                  *)
(*   SpecCalls   App with handleDisconnect also called directly            *)
(*   LiveSpec    Spec with a transport that always answers (weak fairness) *)
(*   SpecEvents  Spec with the participant and track events of the Rooms   *)
(*   SpecSimple  SimpleApp driven through its rendered controls            *)
(*   SpecReveal  SpecSimple with one more request of the user              *)
(*                                                                         *)
(* Not modelled: entry timestamps, the recording clock and volume meter    *)
(* (recordingTime, volume, timerRef, animationRef) and speech synthesis.    *)
(***************************************************************************)
EXTENDS Integers, Sequences, FiniteSets, TLC

\* ------------------------------------------------------------------ bounds
\* Number of user requests explored (handleConnect, handleDisconnect and
\* toggleMicrophone invocations together).
MaxCalls == 4
\* Number of user requests to SimpleApp explored (record, stop, send, retry).
MaxOps == 2
\* Number of timeslice chunks one MediaRecorder delivers before it is stopped.
MaxChunks == 1
\* Number of participant and track events the transport emits.
MaxEvents == 2

\* ------------------------------------------------------------ App: values
RoomNames == {"agent-room", "other-room"}
NoRoom == 0
RoomIds == 1..MaxCalls
FallbackToken == "fallback-jwt"
ServerToken(r) == IF r = "agent-room" THEN "jwt-agent-room" ELSE "jwt-other-room"

VARIABLES
  \* App.js useState cells
  roomName, token, room, connectionState, messages, isMicrophoneActive,
  \* one record per handleConnect invocation (the async function's frame)
  attempts, nAttempts,
  \* the transport: state of each Room object, undelivered Disconnected events
  roomStatus, discEvents,
  \* pending setMicrophoneEnabled calls of toggleMicrophone
  micReqs, nCalls,
  \* an exception escaped a handler
  uncaught,
  \* history: consecutive handleDisconnect calls (0, 1, 2 = two or more)
  discRow,
  \* the Room objects' remote side: identities present and (identity, track)
  \* pairs subscribed, per Room; the children of #audio-container; events emitted
  present, subs, audioContainer, nEvents,
  \* SimpleApp useState cells (messages is simpleMessages here)
  isRecording, isProcessing, simpleMessages, audioStream, mediaRecorder,
  audioChunks, apiStatus, textInput,
  \* pending /health requests
  healthPending,
  \* startRecording invocations awaiting getUserMedia, and how many were made
  gumPending, nStarts,
  \* the devices: each MediaStream and MediaRecorder created, chunks delivered
  streamState, recorderState, nDelivered,
  \* pending timers and requests: stopRecording's 300 ms timeouts (each with the
  \* audioChunks it closed over), uploads of processAudio, handleSendText's
  \* 1500 ms timeouts, the typing intervals of addMessage, Audio elements
  stopTimeouts, uploads, sendTimeouts, reveals, players,
  \* user requests made so far
  nOps

appState == <<roomName, token, room, connectionState, messages, isMicrophoneActive>>
appVars == <<roomName, token, room, connectionState, messages, isMicrophoneActive,
             attempts, nAttempts, roomStatus, discEvents, micReqs, nCalls, uncaught>>
simpleVars == <<isRecording, isProcessing, simpleMessages, audioStream, mediaRecorder,
                audioChunks, apiStatus, textInput, healthPending, gumPending, nStarts,
                streamState, recorderState, nDelivered, stopTimeouts, uploads,
                sendTimeouts, reveals, players, nOps>>
eventVars == <<present, subs, audioContainer, nEvents>>
vars == <<appVars, discRow, eventVars, simpleVars>>

\* The frame of one handleConnect invocation: where it is (pc), the token it
\* resolved (currentToken), isMicrophoneActive and roomName as closed over at the
\* call (audioEnabled, fetchRoom), and how the Token Provider answered its
\* request (reply: "none" while unanswered or never asked).
IdleAttempt == [pc |-> "idle", currentToken |-> "", audioEnabled |-> FALSE,
                fetchRoom |-> "", reply |-> "none"]

\* A handleConnect invocation that has returned: its frame is gone.
Returned(a) == [IdleAttempt EXCEPT !.pc = "done", !.reply = a.reply]

InitApp ==
  /\ roomName = "agent-room"
  /\ token = ""
  /\ room = NoRoom
  /\ connectionState = "disconnected"
  /\ messages = <<>>
  /\ isMicrophoneActive = FALSE
  /\ attempts = [i \in RoomIds |-> IdleAttempt]
  /\ nAttempts = 0
  /\ roomStatus = [i \in RoomIds |-> "none"]
  /\ discEvents = {}
  /\ micReqs = <<>>
  /\ nCalls = 0
  /\ uncaught = FALSE

\* addMessage: append { sender, text } (the timestamp is not modelled).
addMessage(log, sender, text) == Append(log, [sender |-> sender, text |-> text])

\* Mutant of handleConnect: the held token is not used, fetchToken is always
\* awaited.
handleConnectAlwaysFetches ==
  /\ nAttempts' = nAttempts + 1
  /\ connectionState' = "connecting"
  /\ attempts' = [attempts EXCEPT ![nAttempts + 1] =
                    [pc |-> "fetch",
                     currentToken |-> "",
                     audioEnabled |-> isMicrophoneActive,
                     fetchRoom |-> roomName,
                     reply |-> "none"]]
  /\ UNCHANGED <<roomName, token, room, messages, isMicrophoneActive,
                 roomStatus, discEvents, micReqs, uncaught>>

\* handleConnect up to its first await.  With a token held, `token || await
\* fetchToken()` does not await: the Room is created and connect() is issued in
\* the same turn.
handleConnect ==
  /\ nAttempts' = nAttempts + 1
  /\ connectionState' = "connecting"
  /\ attempts' = [attempts EXCEPT ![nAttempts + 1] =
                    [pc |-> IF token # "" THEN "connect" ELSE "fetch",
                     currentToken |-> token,
                     audioEnabled |-> isMicrophoneActive,
                     fetchRoom |-> IF token # "" THEN "" ELSE roomName,
                     reply |-> "none"]]
  /\ UNCHANGED <<roomName, token, room, messages, isMicrophoneActive,
                 roomStatus, discEvents, micReqs, uncaught>>

\* fetchToken resolves with a body that has a token: setToken(data.token).
fetchTokenOk(i) ==
  /\ attempts[i].pc = "fetch"
  /\ token' = ServerToken(attempts[i].fetchRoom)
  /\ attempts' = [attempts EXCEPT ![i].pc = "connect",
                                  ![i].currentToken = ServerToken(attempts[i].fetchRoom),
                                  ![i].reply = "ok"]
  /\ UNCHANGED <<roomName, room, connectionState, messages, isMicrophoneActive,
                 nAttempts, roomStatus, discEvents, micReqs, nCalls, uncaught>>

\* Mutant of connectCatch: the catch block does not write to the log.
connectCatchSilent(i) ==
  /\ connectionState' = "disconnected"
  /\ messages' = messages

\* handleConnect's catch block.
connectCatch(i) ==
  /\ connectionState' = "disconnected"
  /\ messages' = addMessage(messages, "System", "Connection error")

\* Mutant of fetchTokenFail: no fallback, the fetch error reaches handleConnect's
\* catch block.
fetchTokenFailRethrows(i) ==
  /\ attempts[i].pc = "fetch"
  /\ connectCatch(i)
  /\ attempts' = [attempts EXCEPT ![i] = [IdleAttempt EXCEPT !.pc = "done",
                                                              !.reply = "fail"]]
  /\ UNCHANGED <<roomName, token, room, isMicrophoneActive, nAttempts, roomStatus,
                 discEvents, micReqs, nCalls, uncaught>>

\* fetchToken's catch: network error, unparsable body or no token in it.
fetchTokenFail(i) ==
  /\ attempts[i].pc = "fetch"
  /\ token' = FallbackToken
  /\ attempts' = [attempts EXCEPT ![i].pc = "connect",
                                  ![i].currentToken = FallbackToken,
                                  ![i].reply = "fail"]
  /\ UNCHANGED <<roomName, room, connectionState, messages, isMicrophoneActive,
                 nAttempts, roomStatus, discEvents, micReqs, nCalls, uncaught>>

\* newRoom.connect resolved: setRoom, setConnectionState('connected'), addMessage,
\* then the microphone is enabled when isMicrophoneActive was set at the call.
connectOk(i) ==
  /\ attempts[i].pc = "connect"
  /\ roomStatus' = [roomStatus EXCEPT ![i] = "connected"]
  /\ room' = i
  /\ connectionState' = "connected"
  /\ messages' = addMessage(messages, "System",
                            "Connected to room. You can now speak with the agent.")
  /\ attempts' = [attempts EXCEPT ![i] =
                    IF attempts[i].audioEnabled
                      THEN [attempts[i] EXCEPT !.pc = "mic"]
                      ELSE Returned(attempts[i])]
  /\ UNCHANGED <<roomName, token, isMicrophoneActive, nAttempts, discEvents,
                 micReqs, nCalls, uncaught>>

\* newRoom.connect rejected (unreachable server, rejected token).
connectFail(i) ==
  /\ attempts[i].pc = "connect"
  /\ connectCatch(i)
  /\ attempts' = [attempts EXCEPT ![i] = Returned(attempts[i])]
  /\ UNCHANGED <<roomName, token, room, isMicrophoneActive, nAttempts, roomStatus,
                 discEvents, micReqs, nCalls, uncaught>>

\* await newRoom.localParticipant.setMicrophoneEnabled(true) resolved.
micEnableOk(i) ==
  /\ attempts[i].pc = "mic"
  /\ roomStatus[i] = "connected"
  /\ attempts' = [attempts EXCEPT ![i] = Returned(attempts[i])]
  /\ UNCHANGED <<roomName, token, room, connectionState, messages, isMicrophoneActive,
                 nAttempts, roomStatus, discEvents, micReqs, nCalls, uncaught>>

\* setMicrophoneEnabled(true) rejected (permission refused, device missing, or the
\* room went away meanwhile): the catch block runs, the Room is not touched.
micEnableFail(i) ==
  /\ attempts[i].pc = "mic"
  /\ connectCatch(i)
  /\ attempts' = [attempts EXCEPT ![i] = Returned(attempts[i])]
  /\ UNCHANGED <<roomName, token, room, isMicrophoneActive, nAttempts, roomStatus,
                 discEvents, micReqs, nCalls, uncaught>>

\* Mutant of handleDisconnect: no `if (room)` test, so room.disconnect() throws
\* on a null room before connectionState is set.
handleDisconnectUnguarded ==
  /\ IF room # NoRoom
       THEN /\ roomStatus' = [roomStatus EXCEPT ![room] = "disconnected"]
            /\ discEvents' = IF roomStatus[room] = "connected"
                               THEN discEvents \cup {room} ELSE discEvents
            /\ room' = NoRoom
            /\ connectionState' = "disconnected"
            /\ UNCHANGED uncaught
       ELSE /\ uncaught' = TRUE
            /\ UNCHANGED <<roomStatus, discEvents, room, connectionState>>
  /\ UNCHANGED <<roomName, token, messages, isMicrophoneActive, attempts, nAttempts,
                 micReqs>>

\* handleDisconnect.  room.disconnect() closes the Room; the SDK then emits
\* RoomEvent.Disconnected to the listener registered in handleConnect.
handleDisconnect ==
  /\ IF room # NoRoom
       THEN /\ roomStatus' = [roomStatus EXCEPT ![room] = "disconnected"]
            /\ discEvents' = IF roomStatus[room] = "connected"
                               THEN discEvents \cup {room} ELSE discEvents
            /\ room' = NoRoom
       ELSE UNCHANGED <<roomStatus, discEvents, room>>
  /\ connectionState' = "disconnected"
  /\ UNCHANGED <<roomName, token, messages, isMicrophoneActive, attempts, nAttempts,
                 micReqs, uncaught>>

\* Mutant of onDisconnected: the listener does not write to the log.
onDisconnectedSilent ==
  /\ connectionState' = "disconnected"
  /\ messages' = messages

\* The RoomEvent.Disconnected listener of room i.
onDisconnected ==
  /\ connectionState' = "disconnected"
  /\ messages' = addMessage(messages, "System", "Disconnected from room")

\* Delivery of the Disconnected event that follows a local room.disconnect().
deliverDisconnected(i) ==
  /\ i \in discEvents
  /\ discEvents' = discEvents \ {i}
  /\ onDisconnected
  /\ UNCHANGED <<roomName, token, room, isMicrophoneActive, attempts, nAttempts,
                 roomStatus, micReqs, nCalls, uncaught>>

\* The transport drops room i (server side or network): Disconnected is emitted.
transportDisconnected(i) ==
  /\ roomStatus[i] = "connected"
  /\ roomStatus' = [roomStatus EXCEPT ![i] = "disconnected"]
  /\ onDisconnected
  /\ UNCHANGED <<roomName, token, room, isMicrophoneActive, attempts, nAttempts,
                 discEvents, micReqs, nCalls, uncaught>>

\* toggleMicrophone up to its await.
toggleMicrophone ==
  /\ isMicrophoneActive' = ~isMicrophoneActive
  /\ micReqs' = IF room # NoRoom
                  THEN Append(micReqs, [room |-> room, newState |-> ~isMicrophoneActive])
                  ELSE micReqs
  /\ UNCHANGED <<roomName, token, room, connectionState, messages, attempts,
                 nAttempts, roomStatus, discEvents, uncaught>>

\* setMicrophoneEnabled(newState) of toggleMicrophone resolved.
toggleOk ==
  /\ micReqs # <<>>
  /\ roomStatus[Head(micReqs).room] = "connected"
  /\ micReqs' = Tail(micReqs)
  /\ messages' = addMessage(messages, "System",
                   IF Head(micReqs).newState THEN "Microphone enabled"
                                             ELSE "Microphone disabled")
  /\ UNCHANGED <<roomName, token, room, connectionState, isMicrophoneActive, attempts,
                 nAttempts, roomStatus, discEvents, nCalls, uncaught>>

\* setMicrophoneEnabled(newState) of toggleMicrophone rejected.
toggleFail ==
  /\ micReqs # <<>>
  /\ micReqs' = Tail(micReqs)
  /\ messages' = addMessage(messages, "System", "Error toggling microphone")
  /\ UNCHANGED <<roomName, token, room, connectionState, isMicrophoneActive, attempts,
                 nAttempts, roomStatus, discEvents, nCalls, uncaught>>

\* The room-name input: enabled unless connectionState is 'connected'.
setRoomName(r) ==
  /\ connectionState # "connected"
  /\ r # roomName
  /\ roomName' = r
  /\ UNCHANGED <<token, room, connectionState, messages, isMicrophoneActive, attempts,
                 nAttempts, roomStatus, discEvents, micReqs, nCalls, uncaught>>

\* ---------------------------------------------- App: participants and tracks
Identities == {"agent"}
Tracks == { [kind |-> "audio", sid |-> "TR_A"], [kind |-> "video", sid |-> "TR_V"] }

InitEvents ==
  /\ present = [i \in RoomIds |-> {}]
  /\ subs = [i \in RoomIds |-> {}]
  /\ audioContainer = <<>>
  /\ nEvents = 0

\* `${participant.identity} joined the room`, `... left the room`
JoinedText(p) == IF p = "agent" THEN "agent joined the room" ELSE "guest joined the room"
LeftText(p) == IF p = "agent" THEN "agent left the room" ELSE "guest left the room"
\* `Subscribed to ${track.kind} track from ${participant.identity}`
SubscribedText(kind, p) ==
  IF kind = "audio"
    THEN (IF p = "agent" THEN "Subscribed to audio track from agent"
                         ELSE "Subscribed to audio track from guest")
    ELSE (IF p = "agent" THEN "Subscribed to video track from agent"
                         ELSE "Subscribed to video track from guest")

\* The <audio> element the TrackSubscribed listener creates; its id is
\* `audio-${participant.identity}-${track.sid}`, it is attached to the track of
\* Room i.
AudioElement(i, track, p) ==
  [id |-> <<"audio", p, track.sid>>, room |-> i, participant |-> p, track |-> track.sid]

\* An event of Room i: one more of the MaxEvents explored.  A Room emits
\* participant and track events only while it is connected; the listeners leave
\* the session's state alone, except for the log.
RoomEventOf(i) ==
  /\ roomStatus[i] = "connected"
  /\ nEvents < MaxEvents
  /\ nEvents' = nEvents + 1
  /\ UNCHANGED <<roomName, token, room, connectionState, isMicrophoneActive, attempts,
                 nAttempts, roomStatus, discEvents, micReqs, nCalls, uncaught>>

\* The RoomEvent.ParticipantConnected listener of Room i.
participantConnected(i, p) ==
  /\ RoomEventOf(i)
  /\ p \notin present[i]
  /\ present' = [present EXCEPT ![i] = present[i] \cup {p}]
  /\ messages' = addMessage(messages, "System", JoinedText(p))
  /\ UNCHANGED <<subs, audioContainer>>

\* The RoomEvent.ParticipantDisconnected listener of Room i.  The SDK drops the
\* participant's subscriptions; the listener only writes to the log.
participantDisconnected(i, p) ==
  /\ RoomEventOf(i)
  /\ p \in present[i]
  /\ present' = [present EXCEPT ![i] = present[i] \ {p}]
  /\ subs' = [subs EXCEPT ![i] = {s \in subs[i] : s[1] # p}]
  /\ messages' = addMessage(messages, "System", LeftText(p))
  /\ UNCHANGED audioContainer

\* Mutant of trackSubscribed: the listener does not create the audio element.
trackSubscribedNoSink(i, track, p) ==
  /\ RoomEventOf(i)
  /\ <<p, track>> \notin subs[i]
  /\ subs' = [subs EXCEPT ![i] = subs[i] \cup {<<p, track>>}]
  /\ present' = [present EXCEPT ![i] = present[i] \cup {p}]
  /\ messages' = addMessage(messages, "System", SubscribedText(track.kind, p))
  /\ UNCHANGED audioContainer

\* The RoomEvent.TrackSubscribed listener of Room i.  The publisher is in the
\* room: it was announced by ParticipantConnected, or it was there when the page
\* joined (the SDK announces no event for those).
trackSubscribed(i, track, p) ==
  /\ RoomEventOf(i)
  /\ <<p, track>> \notin subs[i]
  /\ subs' = [subs EXCEPT ![i] = subs[i] \cup {<<p, track>>}]
  /\ present' = [present EXCEPT ![i] = present[i] \cup {p}]
  /\ messages' = addMessage(messages, "System", SubscribedText(track.kind, p))
  /\ audioContainer' = IF track.kind = "audio"
                         THEN Append(audioContainer, AudioElement(i, track, p))
                         ELSE audioContainer

\* ------------------------------------------------------- SimpleApp: values
CaptureIds == 1..MaxOps
NoDevice == 0

\* A text is a sequence of units.  The typing interval of addMessage reveals an
\* agent text one unit per tick (in the code one character); every other text
\* is a single unit.
TypingIndicator == <<"...">>
SimulatedResponse == <<"Thank you for your message.", " How else can I assist you today?">>
UserText == <<"what is my balance">>
ResponseTexts == { <<>>, <<"a">>, <<"b", "c">> }
\* A field the response body does not have.
Undefined == <<"(undefined)">>

TextInputs == {"", " ", "hi"}
\* String.prototype.trim on the inputs explored.
Trim(s) == IF s = " " THEN "" ELSE s

\* A log entry without isTyping (undefined is falsy).
Entry(sender, text) == [sender |-> sender, text |-> text, isTyping |-> FALSE]
TypingEntry(sender) == [sender |-> sender, text |-> TypingIndicator, isTyping |-> TRUE]

InitSimple ==
  /\ isRecording = FALSE
  /\ isProcessing = FALSE
  /\ simpleMessages = << Entry("System",
       <<"Welcome to the Voice Agent demo. Click \"Start Recording\" to begin.">>) >>
  /\ audioStream = NoDevice
  /\ mediaRecorder = NoDevice
  /\ audioChunks = <<>>
  /\ apiStatus = "unknown"
  /\ textInput = ""
  /\ healthPending = 1
  /\ gumPending = {}
  /\ nStarts = 0
  /\ streamState = [k \in CaptureIds |-> "none"]
  /\ recorderState = [k \in CaptureIds |-> "none"]
  /\ nDelivered = [k \in CaptureIds |-> 0]
  /\ stopTimeouts = <<>>
  /\ uploads = <<>>
  /\ sendTimeouts = 0
  /\ reveals = <<>>
  /\ players = <<>>
  /\ nOps = 0

\* The log and the typing intervals, as addMessage changes them together.
LogState == [log |-> simpleMessages, reveals |-> reveals]

\* Mutant of addMessageSimple: a message that is not from the agent overwrites
\* the last entry instead of being appended.
addMessageOverwriting(st, sender, text) ==
  IF sender = "Agent"
    THEN [log |-> Append(st.log, TypingEntry(sender)),
          reveals |-> Append(st.reveals,
                        [text |-> text, visibleLength |-> 0, active |-> TRUE,
                         entry |-> Len(st.log) + 1])]
    ELSE [log |-> [st.log EXCEPT ![Len(st.log)] = Entry(sender, text)],
          reveals |-> st.reveals]

\* addMessage(sender, text) of SimpleApp.  An agent message appends the typing
\* indicator and starts an interval with its own visibleLength; `entry` records
\* which entry the call appended.
addMessageSimple(st, sender, text) ==
  IF sender = "Agent"
    THEN [log |-> Append(st.log, TypingEntry(sender)),
          reveals |-> Append(st.reveals,
                        [text |-> text, visibleLength |-> 0, active |-> TRUE,
                         entry |-> Len(st.log) + 1])]
    ELSE [log |-> Append(st.log, Entry(sender, text)), reveals |-> st.reveals]

\* addMessage('Agent', undefined): the indicator is appended, then text.length
\* throws before setInterval.
addAgentUndefined(st) ==
  [log |-> Append(st.log, TypingEntry("Agent")), reveals |-> st.reveals]

SetLog(st) == simpleMessages' = st.log /\ reveals' = st.reveals

\* updatedMessages.findIndex(msg => msg.isTyping); 0 stands for -1.
TypingIndex(log) ==
  IF \E j \in DOMAIN log : log[j].isTyping
    THEN CHOOSE j \in DOMAIN log :
           log[j].isTyping /\ \A h \in DOMAIN log : log[h].isTyping => j <= h
    ELSE 0

\* One tick of the typing interval k.
revealTick(k) ==
  /\ k \in DOMAIN reveals
  /\ reveals[k].active
  /\ LET r == reveals[k]
         visibleLength == r.visibleLength + 1
         typingIndex == TypingIndex(simpleMessages)
     IN IF visibleLength <= Len(r.text)
          THEN /\ reveals' = [reveals EXCEPT ![k].visibleLength = visibleLength]
               /\ simpleMessages' =
                    IF typingIndex # 0
                      THEN [simpleMessages EXCEPT ![typingIndex] =
                              [sender |-> "Agent",
                               text |-> SubSeq(r.text, 1, visibleLength),
                               isTyping |-> visibleLength < Len(r.text)]]
                      ELSE simpleMessages
          ELSE /\ reveals' = [reveals EXCEPT ![k].visibleLength = visibleLength,
                                            ![k].active = FALSE]
               /\ UNCHANGED simpleMessages
  /\ UNCHANGED <<isRecording, isProcessing, audioStream, mediaRecorder, audioChunks,
                 apiStatus, textInput, healthPending, gumPending, nStarts,
                 streamState, recorderState, nDelivered, stopTimeouts, uploads,
                 sendTimeouts, players, nOps>>

\* checkApiConnection: the /health request has been issued.
checkApiConnection ==
  /\ healthPending' = healthPending + 1
  /\ UNCHANGED <<isRecording, isProcessing, simpleMessages, audioStream, mediaRecorder,
                 audioChunks, apiStatus, textInput, gumPending, nStarts, streamState,
                 recorderState, nDelivered, stopTimeouts, uploads, sendTimeouts,
                 reveals, players>>

\* A /health request completes: status is the value of apiStatus it sets, text
\* the entry it writes.
healthDone(status, text) ==
  /\ healthPending > 0
  /\ healthPending' = healthPending - 1
  /\ apiStatus' = status
  /\ SetLog(addMessageSimple(LogState, "System", text))
  /\ UNCHANGED <<isRecording, isProcessing, audioStream, mediaRecorder, audioChunks,
                 textInput, gumPending, nStarts, streamState, recorderState, nDelivered,
                 stopTimeouts, uploads, sendTimeouts, players, nOps>>

healthOk == healthDone("connected", <<"Connected to API server successfully.">>)
healthNotOk == healthDone("error", <<"Error connecting to API server: 503">>)
\* The catch block: the 5 s abort, a failed fetch, any other error.
healthThrows ==
  \E text \in { <<"Connection to API server timed out. Please check if the server is running.">>,
                <<"Cannot reach API server. Please make sure the FastAPI server is running at port 5000.">>,
                <<"Error connecting to API server: other">> } :
    healthDone("error", text)

\* startRecording up to `await getUserMedia`.
startRecording ==
  /\ audioChunks' = <<>>
  /\ nStarts' = nStarts + 1
  /\ gumPending' = gumPending \cup {nStarts + 1}
  /\ UNCHANGED <<isRecording, isProcessing, simpleMessages, audioStream, mediaRecorder,
                 apiStatus, textInput, healthPending, streamState, recorderState,
                 nDelivered, stopTimeouts, uploads, sendTimeouts, reveals, players>>

\* getUserMedia resolved for invocation k: the rest of startRecording.
getUserMediaOk(k) ==
  /\ k \in gumPending
  /\ gumPending' = gumPending \ {k}
  /\ streamState' = [streamState EXCEPT ![k] = "live"]
  /\ audioStream' = k
  /\ recorderState' = [recorderState EXCEPT ![k] = "recording"]
  /\ mediaRecorder' = k
  /\ isRecording' = TRUE
  /\ SetLog(addMessageSimple(LogState, "System", <<"Recording started. Speak now...">>))
  /\ UNCHANGED <<isProcessing, audioChunks, apiStatus, textInput, healthPending, nStarts,
                 nDelivered, stopTimeouts, uploads, sendTimeouts, players, nOps>>

\* getUserMedia rejected: startRecording's catch.
getUserMediaFail(k) ==
  /\ k \in gumPending
  /\ gumPending' = gumPending \ {k}
  /\ SetLog(addMessageSimple(LogState, "System", <<"Error starting recording">>))
  /\ UNCHANGED <<isRecording, isProcessing, audioStream, mediaRecorder, audioChunks,
                 apiStatus, textInput, healthPending, nStarts, streamState,
                 recorderState, nDelivered, stopTimeouts, uploads, sendTimeouts,
                 players, nOps>>

\* recorder.ondataavailable for the next chunk of recorder k, of the given size.
ondataavailable(k, size) ==
  /\ nDelivered' = [nDelivered EXCEPT ![k] = nDelivered[k] + 1]
  /\ audioChunks' = IF size > 0 THEN Append(audioChunks, <<k, nDelivered[k] + 1>>)
                                ELSE audioChunks

\* A timeslice chunk of a running recorder (recorder.start(200)).
timesliceData(k, size) ==
  /\ recorderState[k] = "recording"
  /\ nDelivered[k] < MaxChunks
  /\ ondataavailable(k, size)
  /\ UNCHANGED <<isRecording, isProcessing, simpleMessages, audioStream, mediaRecorder,
                 apiStatus, textInput, healthPending, gumPending, nStarts, streamState,
                 recorderState, stopTimeouts, uploads, sendTimeouts, reveals, players,
                 nOps>>

\* The last chunk, which MediaRecorder.stop() makes the recorder deliver.
finalData(k, size) ==
  /\ recorderState[k] = "stopping"
  /\ recorderState' = [recorderState EXCEPT ![k] = "inactive"]
  /\ ondataavailable(k, size)
  /\ UNCHANGED <<isRecording, isProcessing, simpleMessages, audioStream, mediaRecorder,
                 apiStatus, textInput, healthPending, gumPending, nStarts, streamState,
                 stopTimeouts, uploads, sendTimeouts, reveals, players, nOps>>

\* stopRecording.  The timeout it sets keeps the audioChunks of this render.
stopRecording ==
  /\ IF mediaRecorder # NoDevice /\ isRecording
       THEN /\ recorderState' = [recorderState EXCEPT ![mediaRecorder] = "stopping"]
            /\ isRecording' = FALSE
            /\ SetLog(addMessageSimple(LogState, "System",
                                       <<"Recording stopped. Processing audio...">>))
            /\ IF audioStream # NoDevice
                 THEN /\ streamState' = [streamState EXCEPT ![audioStream] = "stopped"]
                      /\ audioStream' = NoDevice
                 ELSE UNCHANGED <<streamState, audioStream>>
            /\ stopTimeouts' = Append(stopTimeouts, audioChunks)
       ELSE UNCHANGED <<recorderState, isRecording, simpleMessages, reveals,
                        streamState, audioStream, stopTimeouts>>
  /\ UNCHANGED <<isProcessing, mediaRecorder, audioChunks, apiStatus, textInput,
                 healthPending, gumPending, nStarts, nDelivered, uploads, sendTimeouts,
                 players>>

\* processAudio(audioBlob) up to `await fetch`.
processAudio(audioBlob) ==
  /\ isProcessing' = TRUE
  /\ SetLog(addMessageSimple(LogState, "System", <<"Processing audio...">>))
  /\ uploads' = Append(uploads, audioBlob)

\* Mutant of stopTimeoutFires: no test of audioChunks.length.
stopTimeoutFiresUnchecked ==
  /\ stopTimeouts # <<>>
  /\ stopTimeouts' = Tail(stopTimeouts)
  /\ processAudio(Head(stopTimeouts))
  /\ UNCHANGED <<isRecording, audioStream, mediaRecorder, audioChunks, apiStatus,
                 textInput, healthPending, gumPending, nStarts, streamState,
                 recorderState, nDelivered, sendTimeouts, players, nOps>>

\* The 300 ms timeout of stopRecording fires (timeouts of equal delay fire in the
\* order they were set).
stopTimeoutFires ==
  /\ stopTimeouts # <<>>
  /\ stopTimeouts' = Tail(stopTimeouts)
  /\ IF Len(Head(stopTimeouts)) > 0
       THEN processAudio(Head(stopTimeouts))
       ELSE /\ SetLog(addMessageSimple(LogState, "System",
                                       <<"No audio recorded. Please try again.">>))
            /\ UNCHANGED <<isProcessing, uploads>>
  /\ UNCHANGED <<isRecording, audioStream, mediaRecorder, audioChunks, apiStatus,
                 textInput, healthPending, gumPending, nStarts, streamState,
                 recorderState, nDelivered, sendTimeouts, players, nOps>>

\* The sequence s without its element u.
Without(s, u) == SubSeq(s, 1, u - 1) \o SubSeq(s, u + 1, Len(s))

uploadFrame(u) ==
  /\ u \in DOMAIN uploads
  /\ uploads' = Without(uploads, u)
  /\ isProcessing' = FALSE
  /\ UNCHANGED <<isRecording, audioStream, mediaRecorder, audioChunks, apiStatus,
                 textInput, healthPending, gumPending, nStarts, streamState,
                 recorderState, nDelivered, stopTimeouts, sendTimeouts, nOps>>

\* Mutant of uploadOk: the reply is logged before the transcription.
uploadOkAgentFirst(u, response_text, audio_id) ==
  /\ uploadFrame(u)
  /\ SetLog(addMessageSimple(addMessageSimple(LogState, "Agent", response_text),
                             "User", UserText))
  /\ players' = IF audio_id THEN Append(players, "loading") ELSE players

\* The upload u is answered 2xx with { user_text, response_text, audio_id? }.
uploadOk(u, response_text, audio_id) ==
  /\ uploadFrame(u)
  /\ SetLog(addMessageSimple(addMessageSimple(LogState, "User", UserText),
                             "Agent", response_text))
  /\ players' = IF audio_id THEN Append(players, "loading") ELSE players

\* 2xx with a JSON body that has none of the fields: addMessage('Agent',
\* undefined) throws after appending the indicator, the catch block reports it.
uploadNoFields(u) ==
  /\ uploadFrame(u)
  /\ SetLog(addMessageSimple(
              addAgentUndefined(addMessageSimple(LogState, "User", Undefined)),
              "System", <<"Error processing audio: TypeError">>))
  /\ UNCHANGED players

\* Mutant of ErrorMessage: the body of the answer is not read.
ErrorMessageNoDetail(body) == <<"Error processing audio: Failed to process audio">>

\* The error message of a non-2xx answer: detail of a JSON body, else the raw
\* text, else the default.
ErrorMessage(body) ==
  CASE body = "json-detail" -> <<"Error processing audio: bad audio">>
    [] body = "raw" -> <<"Error processing audio: Internal Server Error">>
    [] OTHER -> <<"Error processing audio: Failed to process audio">>

\* The upload u is answered non-2xx.
uploadRejected(u, body) ==
  /\ uploadFrame(u)
  /\ SetLog(addMessageSimple(LogState, "System", ErrorMessage(body)))
  /\ UNCHANGED players

\* fetch rejects (network) or response.json() throws (2xx, body not JSON).
uploadThrows(u) ==
  /\ uploadFrame(u)
  /\ SetLog(addMessageSimple(LogState, "System", <<"Error processing audio: Failed to fetch">>))
  /\ UNCHANGED players

\* handleSendText past its guard.
handleSendText ==
  /\ ~(Trim(textInput) = "" \/ isProcessing)
  /\ isProcessing' = TRUE
  /\ SetLog(addMessageSimple(LogState, "You", <<textInput>>))
  /\ sendTimeouts' = sendTimeouts + 1
  /\ textInput' = ""
  /\ UNCHANGED <<isRecording, audioStream, mediaRecorder, audioChunks, apiStatus,
                 healthPending, gumPending, nStarts, streamState, recorderState,
                 nDelivered, stopTimeouts, uploads, players>>

\* The 1500 ms timeout of handleSendText fires.
sendTimeoutFires ==
  /\ sendTimeouts > 0
  /\ sendTimeouts' = sendTimeouts - 1
  /\ SetLog(addMessageSimple(LogState, "Agent", SimulatedResponse))
  /\ isProcessing' = FALSE
  /\ UNCHANGED <<isRecording, audioStream, mediaRecorder, audioChunks, apiStatus,
                 textInput, healthPending, gumPending, nStarts, streamState,
                 recorderState, nDelivered, stopTimeouts, uploads, players, nOps>>

\* The text input's onChange.
setTextInput(v) ==
  /\ v # textInput
  /\ textInput' = v
  /\ UNCHANGED <<isRecording, isProcessing, simpleMessages, audioStream, mediaRecorder,
                 audioChunks, apiStatus, healthPending, gumPending, nStarts,
                 streamState, recorderState, nDelivered, stopTimeouts, uploads,
                 sendTimeouts, reveals, players, nOps>>

\* An event of the Audio element p created by playAudioFromUrl.
playerEvent(p, from, to, text) ==
  /\ p \in DOMAIN players
  /\ players[p] = from
  /\ players' = IF to = "gone" THEN Without(players, p) ELSE [players EXCEPT ![p] = to]
  /\ SetLog(addMessageSimple(LogState, "System", text))
  /\ UNCHANGED <<isRecording, isProcessing, audioStream, mediaRecorder, audioChunks,
                 apiStatus, textInput, healthPending, gumPending, nStarts, streamState,
                 recorderState, nDelivered, stopTimeouts, uploads, sendTimeouts, nOps>>

playerPlay(p) == playerEvent(p, "loading", "playing", <<"Playing audio response...">>)
playerEnded(p) == playerEvent(p, "playing", "gone", <<"Audio response finished.">>)
playerError(p) == playerEvent(p, "loading", "failed", <<"Error playing audio response.">>)
playRejected(p) == playerEvent(p, "failed", "gone", <<"Error playing audio: NotSupportedError">>)

\* A request of the user to SimpleApp: one more of the MaxOps explored.
Op(A) == nOps < MaxOps /\ nOps' = nOps + 1 /\ A

\* The rendered controls of SimpleApp.  The record button calls stopRecording
\* while isRecording, startRecording otherwise, and is disabled while processing
\* or unless apiStatus is 'connected'; Send and the text input are disabled while
\* recording or processing; the retry button is shown when apiStatus is 'error'.
RecordEnabled == ~isProcessing /\ apiStatus = "connected"
ClickStart == RecordEnabled /\ ~isRecording /\ Op(startRecording)
ClickStop == RecordEnabled /\ isRecording /\ Op(stopRecording)
ClickSend == ~isRecording /\ ~isProcessing /\ Trim(textInput) # "" /\ Op(handleSendText)
ClickRetry == apiStatus = "error" /\ Op(checkApiConnection)
TypeText(v) == ~isRecording /\ ~isProcessing /\ setTextInput(v)

\* A request of the user: one more handler invocation of the MaxCalls explored.
Call(A) == nCalls < MaxCalls /\ nCalls' = nCalls + 1 /\ A

\* The rendered controls: Connect is shown unless connected and disabled while
\* connecting; Mute and Disconnect are shown only while connected.
ClickConnect == connectionState = "disconnected" /\ Call(handleConnect)
ClickDisconnect == connectionState = "connected" /\ Call(handleDisconnect)
ClickToggle == connectionState = "connected" /\ Call(toggleMicrophone)

\* disconnect() invoked directly, whatever the page shows.
CallDisconnect == Call(handleDisconnect)

Init == InitApp /\ discRow = 0 /\ InitEvents /\ InitSimple

\* discRow counts the handleDisconnect calls made in a row.
Other(A) == A /\ discRow' = 0 /\ UNCHANGED <<eventVars, simpleVars>>
Disc(A) == A /\ discRow' = (IF discRow < 2 THEN discRow + 1 ELSE 2)
             /\ UNCHANGED <<eventVars, simpleVars>>

\* What the transport does on its own (it answers every request made of it and
\* delivers the events it has emitted).
TransportStep ==
  \/ \E i \in RoomIds : Other(connectOk(i))
  \/ \E i \in RoomIds : Other(connectFail(i))
  \/ \E i \in RoomIds : Other(micEnableOk(i))
  \/ \E i \in RoomIds : Other(micEnableFail(i))
  \/ \E i \in RoomIds : Other(deliverDisconnected(i))
  \/ Other(toggleOk)
  \/ Other(toggleFail)

Next ==
  \/ Other(ClickConnect)
  \/ Disc(ClickDisconnect)
  \/ Other(ClickToggle)
  \/ \E i \in RoomIds : Other(fetchTokenOk(i))
  \/ \E i \in RoomIds : Other(fetchTokenFail(i))
  \/ \E i \in RoomIds : Other(connectOk(i))
  \/ \E i \in RoomIds : Other(connectFail(i))
  \/ \E i \in RoomIds : Other(micEnableOk(i))
  \/ \E i \in RoomIds : Other(micEnableFail(i))
  \/ \E i \in RoomIds : Other(deliverDisconnected(i))
  \/ \E i \in RoomIds : Other(transportDisconnected(i))
  \/ Other(toggleOk)
  \/ Other(toggleFail)
  \/ \E r \in RoomNames : Other(setRoomName(r))

\* The session manager as the rendered page drives it.
Spec == Init /\ [][Next]_vars

\* The same, with disconnect() also called directly in any state.
NextCalls ==
  \/ Next
  \/ Disc(CallDisconnect)

SpecCalls == Init /\ [][NextCalls]_vars

\* A step of a transport event listener.
Event(A) == A /\ discRow' = 0 /\ UNCHANGED simpleVars

\* The microphone requests and the room-name input are left out: the
\* listeners neither read nor write what they change.
NextEvents ==
  \/ Other(ClickConnect)
  \/ Disc(ClickDisconnect)
  \/ \E i \in RoomIds : Other(fetchTokenOk(i))
  \/ \E i \in RoomIds : Other(fetchTokenFail(i))
  \/ \E i \in RoomIds : Other(connectOk(i))
  \/ \E i \in RoomIds : Other(connectFail(i))
  \/ \E i \in RoomIds : Other(deliverDisconnected(i))
  \/ \E i \in RoomIds : Other(transportDisconnected(i))
  \/ \E i \in RoomIds, p \in Identities : Event(participantConnected(i, p))
  \/ \E i \in RoomIds, p \in Identities : Event(participantDisconnected(i, p))
  \/ \E i \in RoomIds, t \in Tracks, p \in Identities : Event(trackSubscribed(i, t, p))

\* The session manager with the participant and track events of its Rooms.
SpecEvents == Init /\ [][NextEvents]_vars

Simple(A) == A /\ UNCHANGED <<appVars, discRow, eventVars>>

NextSimple ==
  \/ Simple(ClickStart)
  \/ Simple(ClickStop)
  \/ Simple(ClickSend)
  \/ Simple(ClickRetry)
  \/ \E v \in TextInputs : Simple(TypeText(v))
  \/ Simple(healthOk)
  \/ Simple(healthNotOk)
  \/ Simple(healthThrows)
  \/ \E k \in CaptureIds : Simple(getUserMediaOk(k))
  \/ \E k \in CaptureIds : Simple(getUserMediaFail(k))
  \/ \E k \in CaptureIds, size \in {0, 1} : Simple(timesliceData(k, size))
  \/ \E k \in CaptureIds, size \in {0, 1} : Simple(finalData(k, size))
  \/ Simple(stopTimeoutFires)
  \/ \E u \in 1..MaxOps, t \in ResponseTexts, a \in BOOLEAN : Simple(uploadOk(u, t, a))
  \/ \E u \in 1..MaxOps : Simple(uploadNoFields(u))
  \/ \E u \in 1..MaxOps, b \in {"json-detail", "raw", ""} : Simple(uploadRejected(u, b))
  \/ \E u \in 1..MaxOps : Simple(uploadThrows(u))
  \/ Simple(sendTimeoutFires)
  \/ \E k \in 1..MaxOps : Simple(revealTick(k))
  \/ \E p \in 1..MaxOps : Simple(playerPlay(p))
  \/ \E p \in 1..MaxOps : Simple(playerEnded(p))
  \/ \E p \in 1..MaxOps : Simple(playerError(p))
  \/ \E p \in 1..MaxOps : Simple(playRejected(p))

\* SimpleApp as the rendered page drives it.
SpecSimple == Init /\ [][NextSimple]_vars

\* One request more than the MaxOps of SpecSimple: a send and a recording, or a
\* recording and a send, so that replies of different texts can overlap.
OneMore(A) == nOps = MaxOps /\ nOps' = nOps + 1 /\ A

NextReveal ==
  \/ NextSimple
  \/ Simple(RecordEnabled /\ ~isRecording /\ OneMore(startRecording))
  \/ Simple(RecordEnabled /\ isRecording /\ OneMore(stopRecording))
  \/ Simple(~isRecording /\ ~isProcessing /\ Trim(textInput) # "" /\ OneMore(handleSendText))

\* SimpleApp with one more request of the user.
SpecReveal == Init /\ [][NextReveal]_vars

\* The page with a transport that answers: every pending connect and
\* setMicrophoneEnabled is eventually resolved or rejected and every emitted
\* event is eventually delivered.  Nothing obliges the Token Provider to answer,
\* nor the user to click.
LiveSpec == Init /\ [][Next]_vars /\ WF_vars(TransportStep)

\* ------------------------------------------------------------------ claims

Live == {i \in RoomIds : roomStatus[i] = "connected"}

AllowedTransitions ==
  { <<"disconnected", "connecting">>, <<"connecting", "connected">>,
    <<"connecting", "disconnected">>, <<"connected", "disconnected">> }

\* C1: every change of connectionState is disconnected->connecting,
\* connecting->connected, connecting->disconnected or connected->disconnected.
C1_OnlyAllowedTransitions ==
  [][connectionState' # connectionState
       => <<connectionState, connectionState'>> \in AllowedTransitions]_vars

\* C2: at most one Room that has connected and has not been disconnected exists.
C2_AtMostOneLiveRoom == Cardinality(Live) <= 1

\* C3: connectionState = disconnected implies that no Room of the session is
\* still connected.
C3_DisconnectedReleasesRoom == connectionState = "disconnected" => Live = {}

\* The step of attempt i in which its token request fails.
TokenRequestFails(i) == attempts[i].pc = "fetch" /\ attempts'[i].reply = "fail"

\* The step in which the transport accepts the connection of attempt i.
TransportAccepts(i) == roomStatus[i] = "none" /\ roomStatus'[i] = "connected"

\* C4: when the token request fails, handleConnect goes on to the transport
\* connection with the fallback token (no error entry, still connecting), and if
\* the transport accepts it handleConnect returns with connectionState = connected.
C4_FallbackProceeds ==
  [][\A i \in RoomIds :
       /\ TokenRequestFails(i) =>
            /\ attempts'[i].pc = "connect"
            /\ attempts'[i].currentToken = FallbackToken
            /\ messages' = messages
            /\ connectionState' = connectionState
       /\ attempts[i].reply = "fail" /\ TransportAccepts(i) =>
            /\ attempts[i].currentToken = FallbackToken
            /\ connectionState' = "connected"
            /\ attempts'[i].pc = "done"]_vars

C4_Witness ==
  \E i \in RoomIds :
    /\ attempts[i].reply = "fail"
    /\ roomStatus[i] = "connected"
    /\ connectionState = "connected"

\* The entries the page writes for something other than the token fallback.
OtherNotices ==
  { "Connected to room. You can now speak with the agent.", "Connection error",
    "Disconnected from room", "Microphone enabled", "Microphone disabled",
    "Error toggling microphone" }

DocumentsFallback(m) == m.sender = "System" /\ m.text \notin OtherNotices

\* C5: when a handleConnect that went on with the fallback token (its token
\* request failed) has returned, the log holds a system entry documenting that
\* the fallback was used.
C5_FallbackIsLogged ==
  (\E i \in RoomIds : attempts[i].reply = "fail" /\ attempts[i].pc = "done")
    => \E k \in DOMAIN messages : DocumentsFallback(messages[k])

\* C6: with a transport that answers, connecting leads to connected or
\* disconnected, also when the Token Provider never answers.
C6_ConnectingEnds ==
  (connectionState = "connecting") ~> (connectionState # "connecting")

\* What handleDisconnect may change (all of the session but the call counter).
sessionVars == <<roomName, token, room, connectionState, messages, isMicrophoneActive,
                 attempts, nAttempts, roomStatus, discEvents, micReqs, uncaught>>

\* C7: after every handleDisconnect call connectionState = disconnected, no room
\* is held and nothing was thrown; a call that follows another one directly
\* changes nothing.
C7_DisconnectIdempotent ==
  /\ [](discRow >= 1 =>
          connectionState = "disconnected" /\ room = NoRoom /\ ~uncaught)
  /\ [][discRow >= 1 /\ discRow' = 2 => UNCHANGED sessionVars]_vars

C7_Witness == discRow = 2 /\ connectionState = "disconnected" /\ nAttempts > 0

\* The entries of the log that carry the typing marker.
Typing == {j \in DOMAIN simpleMessages : simpleMessages[j].isTyping}

\* C8: at most one entry of the conversation log has isTyping = true.
C8_AtMostOneTyping == Cardinality(Typing) <= 1

\* No typing interval is running.
NoRevealRunning == \A k \in DOMAIN reveals : ~reveals[k].active

\* Once every typing interval has run out, no entry that a reveal was started
\* for is still typing.
C9_QuiescentNoTyping ==
  NoRevealRunning =>
    \A k \in DOMAIN reveals : ~simpleMessages[reveals[k].entry].isTyping

\* When a new reveal starts, every entry that was still typing is finalized.
C9_NewRevealFinalizesPrior ==
  Len(reveals') > Len(reveals) => \A j \in Typing : ~simpleMessages'[j].isTyping

\* C9: no typing marker is orphaned: every entry created with isTyping = true
\* ends with isTyping = false once the typing intervals have run (for every agent
\* text, the empty one included), and a reveal that starts before a prior one
\* has completed finalizes the prior entry.
C9_NoOrphanedTyping ==
  [](C9_QuiescentNoTyping) /\ [][C9_NewRevealFinalizesPrior]_vars

\* The stopRecording step of a capture for which no chunk was buffered.
StopsEmpty == isRecording /\ ~isRecording' /\ audioChunks = <<>>

\* The step in which the timeout of such a stopRecording fires.
EmptyTimeout ==
  /\ stopTimeouts # <<>>
  /\ Head(stopTimeouts) = <<>>
  /\ stopTimeouts' = Tail(stopTimeouts)

\* C10: stopping a capture with zero buffered chunks appends no entry to the log
\* and starts no upload.
C10_EmptyCaptureSilent ==
  [][StopsEmpty \/ EmptyTimeout
       => simpleMessages' = simpleMessages /\ uploads' = uploads]_vars

\* C10, amended: stopping a capture with zero buffered chunks appends the system
\* entry "Recording stopped. Processing audio..." and, when its timeout fires,
\* the system entry "No audio recorded. Please try again."; no user or agent
\* entry is appended, no reveal and no upload is started, isProcessing is not set.
C10_EmptyCaptureReported ==
  [][/\ StopsEmpty =>
          /\ simpleMessages' = Append(simpleMessages,
               Entry("System", <<"Recording stopped. Processing audio...">>))
          /\ stopTimeouts' = Append(stopTimeouts, <<>>)
          /\ UNCHANGED <<uploads, reveals, isProcessing>>
     /\ EmptyTimeout =>
          /\ simpleMessages' = Append(simpleMessages,
               Entry("System", <<"No audio recorded. Please try again.">>))
          /\ UNCHANGED <<uploads, reveals, isProcessing>>]_vars

C10_Witness ==
  /\ stopTimeouts = <<>>
  /\ uploads = <<>>
  /\ simpleMessages[Len(simpleMessages)] =
       Entry("System", <<"No audio recorded. Please try again.">>)

\* C11: when the processing endpoint answers an upload non-2xx with the body
\* {"detail":"bad audio"}, the outcome is one system entry carrying the detail
\* text; no user or agent entry is appended for that upload, no reveal and no
\* playback is started, and isProcessing is reset.
C11_RejectedUploadReported ==
  [][\A u \in 1..MaxOps :
       uploadRejected(u, "json-detail") =>
         /\ simpleMessages' = Append(simpleMessages,
              Entry("System", <<"Error processing audio: bad audio">>))
         /\ UNCHANGED <<reveals, players>>
         /\ ~isProcessing']_vars

C11_Witness ==
  /\ uploads = <<>>
  /\ ~isProcessing
  /\ simpleMessages[Len(simpleMessages)] =
       Entry("System", <<"Error processing audio: bad audio">>)

\* C12: on every successful upload exactly one user entry (the transcription)
\* and one agent entry (the reply, revealed by its typing interval) are appended
\* to the log, the user entry first, and nothing else is appended in that step.
C12_UserThenAgent ==
  [][\A u \in 1..MaxOps, t \in ResponseTexts, a \in BOOLEAN :
       uploadOk(u, t, a) =>
         /\ simpleMessages' =
              simpleMessages \o << Entry("User", UserText), TypingEntry("Agent") >>
         /\ reveals' = Append(reveals, [text |-> t, visibleLength |-> 0,
                                        active |-> TRUE,
                                        entry |-> Len(simpleMessages) + 2])]_vars

C12_Witness ==
  /\ uploads = <<>>
  /\ \E j \in 1..(Len(simpleMessages) - 1) :
       /\ simpleMessages[j] = Entry("User", UserText)
       /\ simpleMessages[j + 1].sender = "Agent"
       /\ \E k \in DOMAIN reveals : reveals[k].entry = j + 1

ConnectedNotice ==
  [sender |-> "System", text |-> "Connected to room. You can now speak with the agent."]

\* The step in which the handleConnect invocation i returns after the
\* microphone step, its Room still connected.
ReturnsAfterMic(i) ==
  /\ attempts[i].pc = "mic"
  /\ attempts'[i].pc = "done"
  /\ roomStatus[i] = "connected"

\* C13: a handleConnect whose token acquisition and transport connection succeed
\* ends with connectionState = connected, and it appends exactly one system
\* entry "Connected to room...": the entry is appended when the transport
\* accepts, and the rest of the invocation leaves connectionState and the log
\* as they are.
C13_ConnectEndsConnected ==
  [][\A i \in RoomIds :
       /\ TransportAccepts(i) =>
            /\ connectionState' = "connected"
            /\ messages' = Append(messages, ConnectedNotice)
       /\ ReturnsAfterMic(i) =>
            /\ connectionState' = "connected"
            /\ messages' = messages]_vars

DisconnectedNotice == [sender |-> "System", text |-> "Disconnected from room"]

\* C15, as stated: once the transport has reported the disconnect of the
\* session's room (the page still holds the Room, no later connect was made),
\* "Disconnected from room" is the last entry of the log.
C15_DisconnectedIsLast ==
  \A i \in RoomIds :
    room = i /\ roomStatus[i] = "disconnected" /\ nAttempts = i
      => messages[Len(messages)] = DisconnectedNotice

\* C15, amended: when the transport reports a disconnect while the session is
\* connected, in that step connectionState becomes disconnected and the system
\* entry "Disconnected from room" is appended at the end of the log.
C15_TransportDisconnectReported ==
  [][\A i \in RoomIds :
       transportDisconnected(i) /\ connectionState = "connected" =>
         /\ connectionState' = "disconnected"
         /\ messages' = Append(messages, DisconnectedNotice)]_vars

C15_Witness ==
  \E i \in RoomIds :
    /\ room = i
    /\ roomStatus[i] = "disconnected"
    /\ connectionState = "disconnected"
    /\ messages[Len(messages)] = DisconnectedNotice

\* C17: isMicrophoneActive changes only while the session is connected, and a
\* toggleMicrophone whose setMicrophoneEnabled request is refused leaves
\* isMicrophoneActive at the value it had before the call.
C17_MicChangesOnlyWhenApplied ==
  [][/\ isMicrophoneActive' # isMicrophoneActive => connectionState = "connected"
     /\ toggleFail => isMicrophoneActive' = ~Head(micReqs).newState]_vars

\* C18: roomName does not change while connectionState is connecting or
\* connected.
C18_RoomNameFrozen ==
  [][connectionState # "disconnected" => roomName' = roomName]_vars

LiveStreams == {k \in CaptureIds : streamState[k] = "live"}

\* C19: at most one capture holds the microphone, also when startRecording is
\* invoked again before the first getUserMedia has resolved, and every stream
\* that holds it is the one the page can still stop (audioStream).
C19_OneCaptureHoldsMicrophone ==
  /\ Cardinality(LiveStreams) <= 1
  /\ \A k \in LiveStreams : audioStream = k

\* C14: every trackSubscribed event for an audio track creates one binding for
\* the (participant, track) pair, an audio element attached to the track and
\* added at the end of the audio container, and appends the one system entry
\* "Subscribed to audio track from <participant>".
C14_AudioTrackBound ==
  [][\A i \in RoomIds, t \in Tracks, p \in Identities :
       trackSubscribed(i, t, p) /\ t.kind = "audio" =>
         /\ Len(audioContainer') = Len(audioContainer) + 1
         /\ LET e == audioContainer'[Len(audioContainer')]
            IN e.participant = p /\ e.track = t.sid /\ e.room = i
         /\ SubSeq(audioContainer', 1, Len(audioContainer)) = audioContainer
         /\ Len(messages') = Len(messages) + 1
         /\ SubSeq(messages', 1, Len(messages)) = messages
         /\ messages'[Len(messages')].sender = "System"
         /\ p = "agent" =>
              messages'[Len(messages')].text = "Subscribed to audio track from agent"]_vars

C14_Witness ==
  /\ Len(audioContainer) = 1
  /\ audioContainer[1].participant = "agent"
  /\ \E k \in DOMAIN messages :
       messages[k].text = "Subscribed to audio track from agent"

\* C16: a binding (an audio element of the container) exists only while the
\* session is connected, its Room is connected and its participant is present
\* in that Room.
C16_BindingsFollowPresence ==
  \A k \in DOMAIN audioContainer :
    LET e == audioContainer[k]
    IN /\ connectionState = "connected"
       /\ roomStatus[e.room] = "connected"
       /\ e.participant \in present[e.room]

ConnectionErrorNotice == [sender |-> "System", text |-> "Connection error"]

\* C21: when the transport connection of a handleConnect fails, handleConnect
\* returns with connectionState = disconnected, the log gains exactly one system
\* entry describing the failure (so no "Connected to room" entry), no Room is
\* held or connected for it, and nothing is thrown out of handleConnect.
C21_ConnectFailureReported ==
  [][\A i \in RoomIds :
       connectFail(i) =>
         /\ connectionState' = "disconnected"
         /\ messages' = Append(messages, ConnectionErrorNotice)
         /\ attempts'[i].pc = "done"
         /\ roomStatus'[i] = "none"
         /\ room' = room
         /\ ~uncaught']_vars

C21_Witness ==
  \E i \in RoomIds :
    /\ attempts[i].pc = "done"
    /\ roomStatus[i] = "none"
    /\ connectionState = "disconnected"
    /\ messages # <<>>
    /\ messages[Len(messages)] = ConnectionErrorNotice

\* C22: the outcome of the /health request gates nothing: whenever no recording
\* and no processing is in progress the record button is enabled, whatever
\* apiStatus is and whether or not a /health request is pending.
C22_HealthGatesNothing ==
  ~isRecording /\ ~isProcessing => RecordEnabled

\* The handleConnect invocations that have not returned.
InFlight == {i \in RoomIds : attempts[i].pc \in {"fetch", "connect", "mic"}}

\* C26: once token is non-empty it never changes, and no handleConnect started
\* after that asks the Token Provider: it goes straight to the transport with
\* the held token, whatever roomName is by then.
C26_TokenKept ==
  [][token # "" =>
       /\ token' = token
       /\ \A i \in RoomIds :
            attempts[i].pc = "idle" /\ attempts'[i].pc # "idle" =>
              /\ attempts'[i].pc = "connect"
              /\ attempts'[i].currentToken = token]_vars

C26_Witness ==
  \E i \in RoomIds :
    /\ i > 1
    /\ roomStatus[i] = "connected"
    /\ attempts[i].reply = "none"
    /\ roomName = "other-room"
    /\ token = ServerToken("agent-room")

\* C27: at most one handleConnect invocation is in flight.
C27_OneAttemptInFlight == Cardinality(InFlight) <= 1

\* The chunks of the buffer that recorder k delivered.
ChunksOf(k) ==
  LET FromK(c) == c[1] = k IN SelectSeq(audioChunks, FromK)

\* The step in which a timeout of stopRecording hands a payload to processAudio.
HandsPayload ==
  /\ stopTimeouts # <<>>
  /\ stopTimeouts' = Tail(stopTimeouts)
  /\ Len(uploads') = Len(uploads) + 1

\* C25: the payload handed to processAudio is made of the chunks of one capture
\* only, and it is every non-empty chunk the recorder of that capture has
\* delivered, in delivery order, the chunk delivered after stop() included.
C25_PayloadIsWholeCapture ==
  [][HandsPayload =>
       LET payload == uploads'[Len(uploads')]
           k == payload[1][1]
       IN /\ \A n \in DOMAIN payload : payload[n][1] = k
          /\ payload = ChunksOf(k)]_vars

\* C24: both conversation logs are append-only: in every step the log keeps its
\* length or grows at the end, every existing entry stays at its position with
\* its sender, and an entry that is not typing is left exactly as it is.
C24_AppendOnly ==
  [][/\ Len(simpleMessages') >= Len(simpleMessages)
     /\ \A j \in DOMAIN simpleMessages :
          /\ simpleMessages'[j].sender = simpleMessages[j].sender
          /\ ~simpleMessages[j].isTyping => simpleMessages'[j] = simpleMessages[j]
     /\ Len(messages') >= Len(messages)
     /\ SubSeq(messages', 1, Len(messages)) = messages]_vars

C24_Witness ==
  \E j \in DOMAIN simpleMessages :
    /\ j < Len(simpleMessages)
    /\ simpleMessages[j].sender = "Agent"
    /\ ~simpleMessages[j].isTyping
    /\ simpleMessages[j].text = SimulatedResponse

\* C23: when the reveal of an agent entry has completed (the entry is no longer
\* typing), the entry's text is the full text that addMessage was called with
\* for that entry, also when reveals overlap.
C23_RevealedTextIsOwn ==
  \A k \in DOMAIN reveals :
    LET e == simpleMessages[reveals[k].entry]
    IN reveals[k].text # <<>> /\ ~e.isTyping => e.text = reveals[k].text

====
